---- MODULE Spec2Model ----
(***************************************************************************)
(* A model of the defi-dashboard data pipeline:                            *)
(*   server/fetch_data.py           DefiLlamaAPI.fetch_all_data            *)
(*   server/process_data.py         DataProcessor.process_protocol_data    *)
(*   visualizations/compare_defi.py DeFiVisualizer's calculations          *)
(* Python values are modelled as follows.                                  *)
(*   dict   a sequence of [k, v] records in insertion order, keys unique   *)
(*   list   a sequence                                                     *)
(*   str    month keys, display names read by the visualizer and texts in  *)
(*          numeric fields are sequences of character codes, so that the   *)
(*          f-string formatting, the string ordering used by sorted(),     *)
(*          upper() and float() are computed; identifiers of the           *)
(*          configuration are strings                                      *)
(*   float  exact integers; a quotient is a reduced fraction [n, d]        *)
(*   JSON   [t |-> "None"], [t |-> "dict", d |-> dict],                    *)
(*          [t |-> "list", l |-> list], [t |-> "str", s |-> codes],        *)
(*          [t |-> "int", v |-> number], and the non-integral number       *)
(*          [t |-> "float", n |-> numerator, d |-> denominator];           *)
(*          the values of the points of a daily series are JSON values,    *)
(*          integral when they are numbers                                 *)
(*   raise  [t |-> "raise", exc |-> name] where a value was expected       *)
(***************************************************************************)
EXTENDS Integers, Sequences, FiniteSets, TLC

VARIABLES
    pc,            \* position of the pipeline
    gi,            \* index of the protocol group being fetched / processed
    vi,            \* index of the version being fetched inside the group
    ci,            \* index of the chain being fetched / processed
    year,          \* datetime.utcnow().year
    responses,     \* log of what the API answered: <<id, bundle>> in call order
    all_data,      \* fetch_all_data's all_data (the raw snapshot)
    processed,     \* process_protocol_data's processed_data
    raised,        \* the exception that ended the run, or "none"
    previous,      \* what the run before this one was answered and produced
    charts         \* what the visualizer has computed from the processed data

vars == <<pc, gi, vi, ci, year, responses, all_data, processed, raised, previous, charts>>

----------------------------------------------------------------------------
(* Bounds of the model *)

NumGroups == 2
MaxVersions == 2
NumChains == 2
MaxMonths == 13
MaxPoints == 3
MaxEntries == 3

----------------------------------------------------------------------------
(* Python builtins *)

Min(a, b) == IF a <= b THEN a ELSE b

Abs(a) == IF a < 0 THEN -a ELSE a

RECURSIVE Gcd(_, _)
Gcd(a, b) == IF b = 0 THEN a ELSE Gcd(b, a % b)

RECURSIVE SumSeq(_)
SumSeq(s) == IF s = <<>> THEN 0 ELSE Head(s) + SumSeq(Tail(s))

\* d.keys(), d.values(): in insertion order
DictKeys(d) == [i \in 1..Len(d) |-> d[i].k]

DictValues(d) == [i \in 1..Len(d) |-> d[i].v]

\* key in d
HasKey(d, key) == \E i \in 1..Len(d) : d[i].k = key

\* d.get(key, default)
DictGet(d, key, default) ==
    IF HasKey(d, key)
    THEN d[CHOOSE i \in 1..Len(d) : d[i].k = key].v
    ELSE default

\* d[key] = val: an existing key keeps its place, a new key goes last
DictSet(d, key, val) ==
    IF HasKey(d, key)
    THEN [i \in 1..Len(d) |-> IF d[i].k = key THEN [k |-> key, v |-> val] ELSE d[i]]
    ELSE Append(d, [k |-> key, v |-> val])

\* s[-1:]
LastSlice(s) == IF s = <<>> THEN <<>> ELSE <<s[Len(s)]>>

\* s[a:b] with 0 <= a <= b (Python's indices)
Slice(s, a, b) == SubSeq(s, a + 1, Min(b, Len(s)))

\* a / b on numbers: a reduced fraction, or ZeroDivisionError
Float(n) == [exc |-> "none", n |-> n, d |-> 1]

ZeroDivisionError == [exc |-> "ZeroDivisionError", n |-> 0, d |-> 1]

TrueDiv(a, b) ==
    IF b = 0 THEN ZeroDivisionError
    ELSE LET g == Gcd(Abs(a), Abs(b))
             s == IF b < 0 THEN -1 ELSE 1
         IN  [exc |-> "none", n |-> (s * a) \div g, d |-> (s * b) \div g]

----------------------------------------------------------------------------
(* str: sequences of character codes *)

RECURSIVE Digits(_)
Digits(n) == IF n < 10 THEN <<48 + n>> ELSE Digits(n \div 10) \o <<48 + (n % 10)>>

\* f"{n:02d}"
Pad2(n) == IF n < 10 THEN <<48>> \o Digits(n) ELSE Digits(n)

\* f"{y}-{m:02d}"
MonthKey(y, m) == Digits(y) \o <<45>> \o Pad2(m)

\* a < b on str
RECURSIVE StrLess(_, _)
StrLess(a, b) ==
    IF a = <<>> THEN b # <<>>
    ELSE IF b = <<>> THEN FALSE
    ELSE IF a[1] # b[1] THEN a[1] < b[1]
    ELSE StrLess(Tail(a), Tail(b))

\* sorted(keys, reverse=True) on a sequence of distinct str
RECURSIVE SortedReverse(_)
SortedReverse(keys) ==
    IF keys = <<>> THEN <<>>
    ELSE LET i == CHOOSE i \in 1..Len(keys) :
                      \A j \in 1..Len(keys) : j = i \/ StrLess(keys[j], keys[i])
         IN  <<keys[i]>> \o
             SortedReverse([j \in 1..(Len(keys) - 1) |-> IF j < i THEN keys[j] ELSE keys[j + 1]])

----------------------------------------------------------------------------
(* datetime.utcfromtimestamp(timestamp): the UTC civil year and month *)

CivilFromDays(days) ==
    LET z   == days + 719468
        era == z \div 146097
        doe == z - era * 146097
        yoe == (doe - (doe \div 1460) + (doe \div 36524) - (doe \div 146096)) \div 365
        doy == doe - (365 * yoe + (yoe \div 4) - (yoe \div 100))
        mp  == (5 * doy + 2) \div 153
        m   == IF mp < 10 THEN mp + 3 ELSE mp - 9
        y   == yoe + era * 400 + (IF m <= 2 THEN 1 ELSE 0)
    IN  [year |-> y, month |-> m]

utcfromtimestamp(timestamp) == CivilFromDays(timestamp \div 86400)

----------------------------------------------------------------------------
(* Configuration: fetch_data.py *)

PROTOCOLS ==
    << [k |-> "aave",     v |-> <<"aave", "aave-v2", "aave-v3">>],
       [k |-> "compound", v |-> <<"compound-finance", "compound-v1", "compound-v2", "compound-v3">>],
       [k |-> "lido",     v |-> <<"lido">>],
       [k |-> "fluid",    v |-> <<"fluid", "fluid-lending">>],
       [k |-> "jupiter",  v |-> <<"jupiter", "jupiter-aggregator">>],
       [k |-> "makerdao", v |-> <<"maker", "makerdao">>] >>

CHAINS ==
    << "ethereum", "solana", "sonic", "arbitrum", "optimism", "polygon", "mantle",
       "scroll", "base", "avalanche", "bsc", "tron", "hyperliquid-l1", "op-mainnet",
       "moonbeam", "moonriver" >>

\* The part of the configuration the model runs: the first NumGroups groups, the
\* first MaxVersions versions of each, the first NumChains chains.
Groups == SubSeq(PROTOCOLS, 1, Min(NumGroups, Len(PROTOCOLS)))

GroupIds(g) == Slice(Groups[g].v, 0, MaxVersions)

Chains == SubSeq(CHAINS, 1, Min(NumChains, Len(CHAINS)))

----------------------------------------------------------------------------
(* JSON values returned by the API *)

None == [t |-> "None"]

JDict(d) == [t |-> "dict", d |-> d]

JList(l) == [t |-> "list", l |-> l]

JInt(n) == [t |-> "int", v |-> n]

\* a str value: s is the sequence of its character codes
JStr(s) == [t |-> "str", s |-> s]

\* a number of value n / d (d > 0): [t |-> "int"] when the value is integral, else the
\* reduced fraction [t |-> "float"]; 3 and 3.0 are the same number
JNum(n, d) ==
    LET g == Gcd(Abs(n), d)
    IN  IF d \div g = 1 THEN JInt(n \div g)
        ELSE [t |-> "float", n |-> n \div g, d |-> d \div g]

IsNumber(x) == x.t \in {"int", "float"}

Numer(x) == IF x.t = "int" THEN x.v ELSE x.n

Denom(x) == IF x.t = "int" THEN 1 ELSE x.d

\* a + b on numbers
NumAdd(a, b) == JNum(Numer(a) * Denom(b) + Numer(b) * Denom(a), Denom(a) * Denom(b))

ValueError == [t |-> "raise", exc |-> "ValueError"]

TypeError == [t |-> "raise", exc |-> "TypeError"]

IsDigits(s) == \A i \in 1..Len(s) : s[i] \in 48..57

RECURSIVE DigitsValue(_)
DigitsValue(s) == IF s = <<>> THEN 0 ELSE DigitsValue(SubSeq(s, 1, Len(s) - 1)) * 10 + (s[Len(s)] - 48)

RECURSIVE Pow10(_)
Pow10(k) == IF k = 0 THEN 1 ELSE 10 * Pow10(k - 1)

\* float(s) on a str: a decimal literal (sign, digits, at most one point, at least one
\* digit) is its value, every other text here raises ValueError
FloatOfStr(s) ==
    LET signed == s # <<>> /\ s[1] \in {43, 45}
        sign   == IF signed /\ s[1] = 45 THEN -1 ELSE 1
        body   == IF signed THEN Tail(s) ELSE s
        dots   == {i \in 1..Len(body) : body[i] = 46}
    IN  IF dots = {}
        THEN IF body # <<>> /\ IsDigits(body) THEN JInt(sign * DigitsValue(body)) ELSE ValueError
        ELSE LET i  == CHOOSE i \in dots : TRUE
                 ip == SubSeq(body, 1, i - 1)
                 fp == SubSeq(body, i + 1, Len(body))
             IN  IF Cardinality(dots) = 1 /\ Len(body) > 1 /\ IsDigits(ip) /\ IsDigits(fp)
                 THEN JNum(sign * (DigitsValue(ip) * Pow10(Len(fp)) + DigitsValue(fp)),
                           Pow10(Len(fp)))
                 ELSE ValueError

\* bool(x) of a response: None and the empty dict are falsy
Truthy(x) == x.t = "dict" /\ x.d # <<>>

\* data and "totalDataChart" in data
HasChart(data) == Truthy(data) /\ HasKey(data.d, "totalDataChart")

Chart(data) == DictGet(data.d, "totalDataChart", <<>>)

----------------------------------------------------------------------------
(* DefiLlamaAPI.aggregate_monthly_revenue *)

\* the exception the loop raises on daily_data, "none" when it completes: entry[1] of an
\* entry without a value is an IndexError, "+=" of a value that is no number a TypeError
RECURSIVE AggregateError(_)
AggregateError(daily_data) ==
    IF daily_data = <<>> THEN "none"
    ELSE IF Len(Head(daily_data)) < 2 THEN "IndexError"
    ELSE IF ~IsNumber(Head(daily_data)[2]) THEN "TypeError"
    ELSE AggregateError(Tail(daily_data))

\* the loop on a series whose every entry carries a number
RECURSIVE AggregateDaily(_, _)
AggregateDaily(daily_data, monthly_revenue) ==
    IF daily_data = <<>> THEN monthly_revenue
    ELSE LET entry      == Head(daily_data)
             timestamp  == entry[1]
             revenue    == entry[2].v
             date       == utcfromtimestamp(timestamp)
             year_month == MonthKey(date.year, date.month)
             m0 == IF ~HasKey(monthly_revenue, year_month)
                   THEN DictSet(monthly_revenue, year_month, 0)
                   ELSE monthly_revenue
         IN  AggregateDaily(Tail(daily_data),
                            DictSet(m0, year_month, DictGet(m0, year_month, 0) + revenue))

\* the same loop with "=" for "+=": a month keeps its last point only
RECURSIVE AggregateDailyLast(_, _)
AggregateDailyLast(daily_data, monthly_revenue) ==
    IF daily_data = <<>> THEN monthly_revenue
    ELSE LET entry      == Head(daily_data)
             date       == utcfromtimestamp(entry[1])
             year_month == MonthKey(date.year, date.month)
         IN  AggregateDailyLast(Tail(daily_data),
                                DictSet(monthly_revenue, year_month, entry[2].v))

\* the same loop with the local time of a UTC+1 zone for the UTC time
DefiLlamaAPI_aggregate_monthly_revenue_local(daily_data) ==
    AggregateDaily([i \in 1..Len(daily_data) |->
                       <<daily_data[i][1] + 3600, daily_data[i][2]>>], <<>>)

DefiLlamaAPI_aggregate_monthly_revenue_last(daily_data) ==
    AggregateDailyLast(daily_data, <<>>)

DefiLlamaAPI_aggregate_monthly_revenue(daily_data) ==
    AggregateDaily(daily_data, <<>>)

----------------------------------------------------------------------------
(* DefiLlamaAPI.fetch_all_data: one version of a protocol group *)

\* the exception sum([day[1] for day in data["totalDataChart"]]) raises, "none" when it
\* returns: the list is built first (IndexError on an entry without a value), then
\* summed (TypeError on a value that is no number)
ChartTotalError(data) ==
    IF ~HasChart(data) THEN "none"
    ELSE IF \E i \in 1..Len(Chart(data)) : Len(Chart(data)[i]) < 2 THEN "IndexError"
    ELSE IF \E i \in 1..Len(Chart(data)) : ~IsNumber(Chart(data)[i][2]) THEN "TypeError"
    ELSE "none"

\* the total taken from the last point of the chart alone
ChartTotalLast(data) ==
    IF HasChart(data)
    THEN SumSeq(LastSlice([i \in 1..Len(Chart(data)) |-> Chart(data)[i][2].v]))
    ELSE 0

\* sum([day[1] for day in data["totalDataChart"]]) if data and "totalDataChart" in data else 0
ChartTotal(data) ==
    IF HasChart(data)
    THEN SumSeq([i \in 1..Len(Chart(data)) |-> Chart(data)[i][2].v])
    ELSE 0

\* aggregate_monthly_revenue(data["totalDataChart"]) if data and "totalDataChart" in data else {}
ChartMonthly(data) ==
    IF HasChart(data) THEN DefiLlamaAPI_aggregate_monthly_revenue(Chart(data)) ELSE <<>>

NewGroup ==
    [versions |-> <<>>,
     aggregated |-> [tvl |-> JInt(0), fees |-> 0, revenue |-> 0],
     monthly_revenue |-> <<>>]

\* sum(values) of JSON values: 0 + v1 + v2 + ..., a TypeError at a value that is no number
RECURSIVE SumFrom(_, _)
SumFrom(total, values) ==
    IF values = <<>> THEN total
    ELSE IF ~IsNumber(Head(values)) THEN TypeError
    ELSE SumFrom(NumAdd(total, Head(values)), Tail(values))

SumValues(values) == SumFrom(JInt(0), values)

\* the same with the first element of a history taken for the latest
TvlValueFirst(protocol_data) ==
    LET tvl_data == DictGet(protocol_data.d, "tvl", JInt(0))
    IN  IF tvl_data.t = "dict" THEN SumValues(DictValues(tvl_data.d))
        ELSE IF tvl_data.t = "list" /\ tvl_data.l # <<>> THEN tvl_data.l[1]
        ELSE IF IsNumber(tvl_data) THEN tvl_data
        ELSE IF tvl_data.t = "str" THEN FloatOfStr(tvl_data.s)
        ELSE JInt(0)

\* tvl_value, lines 170-176: the sum of a chain breakdown, the last element of a
\* history, or float() of a scalar; the exception sum() or float() raises otherwise
TvlValue(protocol_data) ==
    LET tvl_data == DictGet(protocol_data.d, "tvl", JInt(0))
    IN  IF tvl_data.t = "dict" THEN SumValues(DictValues(tvl_data.d))
        ELSE IF tvl_data.t = "list" /\ tvl_data.l # <<>> THEN tvl_data.l[Len(tvl_data.l)]
        ELSE IF IsNumber(tvl_data) THEN tvl_data
        ELSE IF tvl_data.t = "str" THEN FloatOfStr(tvl_data.s)
        ELSE JInt(0)

\* the amount lines 204-209 add to the group's tvl: tvl_value when it is a number, the
\* sum of its values when it is a mapping (or the TypeError of that sum), else nothing
TvlAdded(tvl_value) ==
    IF IsNumber(tvl_value) THEN tvl_value
    ELSE IF tvl_value.t = "dict" THEN SumValues(DictValues(tvl_value.d))
    ELSE JInt(0)

\* the exception that ends lines 169-215 for this payload, "none" when they complete
StoreVersionError(bundle) ==
    LET tvl_value == TvlValue(bundle.protocol)
    IN  IF tvl_value.t = "raise" THEN tvl_value.exc
        ELSE IF ChartTotalError(bundle.dailyFees) # "none" THEN ChartTotalError(bundle.dailyFees)
        ELSE IF ChartTotalError(bundle.dailyRevenue) # "none" THEN ChartTotalError(bundle.dailyRevenue)
        ELSE IF TvlAdded(tvl_value).t = "raise" THEN TvlAdded(tvl_value).exc
        ELSE "none"

\* the group record after a version whose protocol payload was fetched
StoreVersion(group, protocol_id, bundle) ==
    LET protocol_data == bundle.protocol
        tvl_value == TvlValue(protocol_data)
        fees      == ChartTotal(bundle.dailyFees)
        revenue   == ChartTotal(bundle.dailyRevenue)
        monthly_revenue == ChartMonthly(bundle.dailyRevenue)
        protocol_metrics ==
            [name    |-> DictGet(protocol_data.d, "name", protocol_id),
             symbol  |-> DictGet(protocol_data.d, "symbol", ""),
             chains  |-> DictGet(protocol_data.d, "chains", <<>>),
             tvl     |-> tvl_value,
             fees    |-> fees,
             revenue |-> revenue,
             mcap    |-> DictGet(protocol_data.d, "mcap", 0)]
    IN  [versions |-> DictSet(group.versions, protocol_id, protocol_metrics),
         aggregated |-> [tvl     |-> NumAdd(group.aggregated.tvl, TvlAdded(tvl_value)),
                         fees    |-> group.aggregated.fees + fees,
                         revenue |-> group.aggregated.revenue + revenue],
         monthly_revenue |-> DictSet(group.monthly_revenue, protocol_id, JDict(monthly_revenue))]

\* a version whose payload is absent is stored too: the "if protocol_data" test dropped
FetchedVersionAlways(group, protocol_id, bundle) ==
    StoreVersion(group, protocol_id,
                 [bundle EXCEPT !.protocol = IF Truthy(@) THEN @ ELSE JDict(<<>>)])

\* lines 159-218: the body of the loop over protocol_ids
FetchedVersion(group, protocol_id, bundle) ==
    IF Truthy(bundle.protocol)
    THEN StoreVersion(group, protocol_id, bundle)
    ELSE group

----------------------------------------------------------------------------
(* The twelve synthetic months of the fallback (both stages) *)

\* {f"{year}-{i:02d}": annualized_revenue / 12 for i in range(1, 13)}, where
\* annualized_revenue = sum(list(monthly_revenue.values())[-1:]) * 12; the quotient of
\* a multiple of 12 by 12 is exact
Annualized(monthly_revenue, now_year) ==
    LET last_30_days_revenue == SumSeq(LastSlice(DictValues(monthly_revenue)))
        annualized_revenue   == last_30_days_revenue * 12
    IN  [i \in 1..12 |-> [k |-> MonthKey(now_year, i), v |-> annualized_revenue \div 12]]

(* DefiLlamaAPI.fetch_all_data: one chain *)

\* the fallback taken from the first month of the series instead of the last
FetchedChainFirst(daily_revenue_data, now_year) ==
    LET monthly_revenue == ChartMonthly(daily_revenue_data)
    IN  [monthly_revenue |->
            IF Len(monthly_revenue) < 12
            THEN Annualized(SubSeq(monthly_revenue, 1, Min(1, Len(monthly_revenue))), now_year)
            ELSE monthly_revenue]

FetchedChain(daily_revenue_data, now_year) ==
    LET monthly_revenue == ChartMonthly(daily_revenue_data)
    IN  [monthly_revenue |->
            IF Len(monthly_revenue) < 12
            THEN Annualized(monthly_revenue, now_year)
            ELSE monthly_revenue]

----------------------------------------------------------------------------
(* DataProcessor.aggregate_monthly_revenue *)

\* for month, revenue in version_revenue.items(): ... aggregated_revenue[month] += revenue
RECURSIVE MergeItems(_, _)
MergeItems(items, aggregated_revenue) ==
    IF items = <<>> THEN aggregated_revenue
    ELSE LET month   == Head(items).k
             revenue == Head(items).v
             a0 == IF ~HasKey(aggregated_revenue, month)
                   THEN DictSet(aggregated_revenue, month, 0)
                   ELSE aggregated_revenue
         IN  MergeItems(Tail(items), DictSet(a0, month, DictGet(a0, month, 0) + revenue))

\* for version_revenue in monthly_revenue.values(): a mapping is added month by month,
\* a bare number replaces the accumulator ("month not in <number>" then raises)
RECURSIVE MergeVersions(_, _)
MergeVersions(version_revenues, aggregated_revenue) ==
    IF version_revenues = <<>> \/ aggregated_revenue.t = "raise" THEN aggregated_revenue
    ELSE LET version_revenue == Head(version_revenues)
             next ==
                 IF version_revenue.t = "dict"
                 THEN IF version_revenue.d = <<>> THEN aggregated_revenue
                      ELSE IF aggregated_revenue.t = "dict"
                           THEN JDict(MergeItems(version_revenue.d, aggregated_revenue.d))
                           ELSE TypeError
                 ELSE IF IsNumber(version_revenue) THEN version_revenue
                 ELSE aggregated_revenue
         IN  MergeVersions(Tail(version_revenues), next)

\* the same with "=" for "+=": a month keeps the value of the last version that has it
RECURSIVE OverwriteItems(_, _)
OverwriteItems(items, aggregated_revenue) ==
    IF items = <<>> THEN aggregated_revenue
    ELSE OverwriteItems(Tail(items), DictSet(aggregated_revenue, Head(items).k, Head(items).v))

RECURSIVE OverwriteVersions(_, _)
OverwriteVersions(version_revenues, aggregated_revenue) ==
    IF version_revenues = <<>> THEN aggregated_revenue
    ELSE OverwriteVersions(Tail(version_revenues),
                           IF Head(version_revenues).t = "dict"
                           THEN JDict(OverwriteItems(Head(version_revenues).d, aggregated_revenue.d))
                           ELSE aggregated_revenue)

DataProcessor_aggregate_monthly_revenue_overwrite(monthly_revenue) ==
    OverwriteVersions(DictValues(monthly_revenue), JDict(<<>>))

\* monthly_revenue: the dict of the versions' monthly series
DataProcessor_aggregate_monthly_revenue(monthly_revenue) ==
    MergeVersions(DictValues(monthly_revenue), JDict(<<>>))

----------------------------------------------------------------------------
(* DataProcessor.calculate_qoq_growth *)

AttributeError == [exc |-> "AttributeError", n |-> 0, d |-> 1]

\* sum(aggregated_revenue.get(month, 0) for month in months)
QuarterSum(aggregated_revenue, months) ==
    SumSeq([i \in 1..Len(months) |-> DictGet(aggregated_revenue, months[i], 0)])

get_quarter_revenue(aggregated_revenue, months) ==
    LET revenue == QuarterSum(aggregated_revenue, months)
    IN  IF revenue = 0
        THEN SumSeq(LastSlice(DictValues(aggregated_revenue))) * 4
        ELSE revenue

\* the body of calculate_qoq_growth after the merge, on the merged series
QoqOfSeries(aggregated_revenue) ==
    LET sorted_months    == SortedReverse(DictKeys(aggregated_revenue))
        last_quarter     == get_quarter_revenue(aggregated_revenue, Slice(sorted_months, 0, 3))
        previous_quarter == get_quarter_revenue(aggregated_revenue, Slice(sorted_months, 3, 6))
    IN  IF Len(sorted_months) < 12 THEN Float(0)
        ELSE IF previous_quarter = 0 THEN Float(0)
        ELSE TrueDiv(last_quarter - previous_quarter, previous_quarter)

\* the history threshold at 6 months instead of 12
QoqOfSeriesSix(aggregated_revenue) ==
    LET sorted_months    == SortedReverse(DictKeys(aggregated_revenue))
        last_quarter     == get_quarter_revenue(aggregated_revenue, Slice(sorted_months, 0, 3))
        previous_quarter == get_quarter_revenue(aggregated_revenue, Slice(sorted_months, 3, 6))
    IN  IF Len(sorted_months) < 6 THEN Float(0)
        ELSE IF previous_quarter = 0 THEN Float(0)
        ELSE TrueDiv(last_quarter - previous_quarter, previous_quarter)

\* without the "if previous_quarter == 0" guard
QoqOfSeriesUnguarded(aggregated_revenue) ==
    LET sorted_months    == SortedReverse(DictKeys(aggregated_revenue))
        last_quarter     == get_quarter_revenue(aggregated_revenue, Slice(sorted_months, 0, 3))
        previous_quarter == get_quarter_revenue(aggregated_revenue, Slice(sorted_months, 3, 6))
    IN  IF Len(sorted_months) < 12 THEN Float(0)
        ELSE TrueDiv(last_quarter - previous_quarter, previous_quarter)

DataProcessor_calculate_qoq_growth_six(monthly_revenue) ==
    QoqOfSeriesSix(DataProcessor_aggregate_monthly_revenue(monthly_revenue).d)

DataProcessor_calculate_qoq_growth_unguarded(monthly_revenue) ==
    QoqOfSeriesUnguarded(DataProcessor_aggregate_monthly_revenue(monthly_revenue).d)

DataProcessor_calculate_qoq_growth(monthly_revenue) ==
    LET aggregated_revenue == DataProcessor_aggregate_monthly_revenue(monthly_revenue)
    IN  IF aggregated_revenue.t = "raise"
        THEN [exc |-> aggregated_revenue.exc, n |-> 0, d |-> 1]
        ELSE IF aggregated_revenue.t # "dict" THEN AttributeError
        ELSE QoqOfSeries(aggregated_revenue.d)

----------------------------------------------------------------------------
(* DeFiVisualizer.calculate_qoq_growth: on the merged series of a processed protocol *)

\* the history threshold at 6 months instead of 12
DeFiVisualizer_calculate_qoq_growth_six(monthly_revenue) == QoqOfSeriesSix(monthly_revenue)

DeFiVisualizer_calculate_qoq_growth(monthly_revenue) ==
    LET sorted_months    == SortedReverse(DictKeys(monthly_revenue))
        last_quarter     == get_quarter_revenue(monthly_revenue, Slice(sorted_months, 0, 3))
        previous_quarter == get_quarter_revenue(monthly_revenue, Slice(sorted_months, 3, 6))
    IN  IF Len(sorted_months) < 12 THEN Float(0)
        ELSE IF previous_quarter = 0 THEN Float(0)
        ELSE TrueDiv(last_quarter - previous_quarter, previous_quarter)

----------------------------------------------------------------------------
(* DataProcessor.aggregate_chain_revenue *)

\* the window one month short
relevant_months_short ==
    Slice([i \in 1..24 |-> MonthKey(2024 + ((i - 1) \div 12), ((i - 1) % 12) + 1)], 1, 12)

\* [f"{year}-{month:02d}" for year in range(2024, 2026) for month in range(1, 13)][1:13]
relevant_months ==
    Slice([i \in 1..24 |-> MonthKey(2024 + ((i - 1) \div 12), ((i - 1) % 12) + 1)], 1, 13)

aggregate_chain_revenue(monthly_revenue, now_year) ==
    LET filtered_revenue ==
            [i \in 1..Len(relevant_months) |->
                [k |-> relevant_months[i], v |-> DictGet(monthly_revenue, relevant_months[i], 0)]]
    IN  IF SumSeq(DictValues(filtered_revenue)) = 0
        THEN Annualized(monthly_revenue, now_year)
        ELSE filtered_revenue

----------------------------------------------------------------------------
(* DataProcessor.process_protocol_data: one protocol group *)

\* the protocol_info built from the last version of the group instead of the first
ProtocolInfoLast(protocol_name, protocol_data) ==
    LET aggregated   == protocol_data.aggregated
        main_version == DictValues(protocol_data.versions)[Len(protocol_data.versions)]
    IN  [name        |-> protocol_name,
         displayName |-> main_version.name,
         symbol      |-> main_version.symbol,
         chains      |-> main_version.chains,
         metrics     |-> [tvl        |-> aggregated.tvl,
                          fees       |-> aggregated.fees,
                          revenue    |-> aggregated.revenue,
                          marketCap  |-> main_version.mcap,
                          qoq_growth |-> DataProcessor_calculate_qoq_growth(protocol_data.monthly_revenue)],
         monthly_revenue |-> DataProcessor_aggregate_monthly_revenue(protocol_data.monthly_revenue)]

\* main_version = list(protocol_data["versions"].values())[0] and the protocol_info
\* built from it; qoq_growth is a fraction or the exception calculate_qoq_growth raised
ProtocolInfo(protocol_name, protocol_data) ==
    LET aggregated   == protocol_data.aggregated
        main_version == DictValues(protocol_data.versions)[1]
    IN  [name        |-> protocol_name,
         displayName |-> main_version.name,
         symbol      |-> main_version.symbol,
         chains      |-> main_version.chains,
         metrics     |-> [tvl        |-> aggregated.tvl,
                          fees       |-> aggregated.fees,
                          revenue    |-> aggregated.revenue,
                          marketCap  |-> main_version.mcap,
                          qoq_growth |-> DataProcessor_calculate_qoq_growth(protocol_data.monthly_revenue)],
         monthly_revenue |-> DataProcessor_aggregate_monthly_revenue(protocol_data.monthly_revenue)]

----------------------------------------------------------------------------
(* DeFiVisualizer: the calculations on the processed data *)

\* s.upper() on a str of ASCII characters
Upper(s) == [i \in 1..Len(s) |-> IF s[i] \in 97..122 THEN s[i] - 32 ELSE s[i]]

\* fdv_data, lines 419-426, keys as character codes, amounts in units of 10 000:
\*   "AAVE"             2.585e9
\*   "Compound Finance" 397.89e6
\*   "LIDO"             925.67e6
\*   "FLUID"            489.55e6
\*   "JUPITER"          3.54e9
\*   "MAKER"            1.002e9
fdv_data ==
    << [k |-> <<65, 65, 86, 69>>, v |-> 258500],
       [k |-> <<67, 111, 109, 112, 111, 117, 110, 100, 32, 70, 105, 110, 97, 110, 99, 101>>, v |-> 39789],
       [k |-> <<76, 73, 68, 79>>, v |-> 92567],
       [k |-> <<70, 76, 85, 73, 68>>, v |-> 48955],
       [k |-> <<74, 85, 80, 73, 84, 69, 82>>, v |-> 354000],
       [k |-> <<77, 65, 75, 69, 82>>, v |-> 100200] >>

\* float('inf'): the quotient 1 / 0 of the fraction records, greater than every other
Infinity == [exc |-> "none", n |-> 1, d |-> 0]

\* a < b on the fraction records (denominators are not negative)
RatioLess(a, b) == a.n * b.d < b.n * a.d

\* sum(monthly_revenue[month] for month in sorted(monthly_revenue.keys(), reverse=True)[:12])
calculate_last_12_months_revenue(monthly_revenue) ==
    LET sorted_months  == SortedReverse(DictKeys(monthly_revenue))
        last_12_months == Slice(sorted_months, 0, 12)
    IN  SumSeq([i \in 1..Len(last_12_months) |-> DictGet(monthly_revenue, last_12_months[i], 0)])

\* protocol_ratios after the loop of lines 429-444 over protocols
RECURSIVE ProtocolRatios(_, _)
ProtocolRatios(protocols, protocol_ratios) ==
    IF protocols = <<>> THEN protocol_ratios
    ELSE LET protocol == Head(protocols)
             name     == protocol.displayName
             known    == HasKey(fdv_data, Upper(name))
             fdv      == DictGet(fdv_data, Upper(name), 0)
             revenue  == calculate_last_12_months_revenue(protocol.monthly_revenue.d)
             last_30_days_revenue == SumSeq(LastSlice(DictValues(protocol.monthly_revenue.d)))
             annual_revenue == IF revenue = 0 THEN last_30_days_revenue * 12 ELSE revenue
             ratio    == IF annual_revenue > 0 THEN TrueDiv(fdv, annual_revenue) ELSE Infinity
         IN  ProtocolRatios(Tail(protocols),
                IF known /\ fdv # 0
                THEN Append(protocol_ratios,
                            [name |-> name, fdv |-> fdv, annual_revenue |-> annual_revenue,
                             ratio |-> ratio])
                ELSE protocol_ratios)

\* list.sort(key=lambda x: x["ratio"]): ascending, equal ratios keep their order
RECURSIVE SortByRatio(_)
SortByRatio(l) ==
    IF l = <<>> THEN <<>>
    ELSE LET i == CHOOSE i \in 1..Len(l) :
                      /\ \A j \in 1..Len(l) : ~RatioLess(l[j].ratio, l[i].ratio)
                      /\ \A j \in 1..(i - 1) : RatioLess(l[i].ratio, l[j].ratio)
         IN  <<l[i]>> \o SortByRatio([j \in 1..(Len(l) - 1) |-> IF j < i THEN l[j] ELSE l[j + 1]])

calculate_fdv_ratio(protocols) == SortByRatio(ProtocolRatios(protocols, <<>>))

\* the same with the months in reverse insertion order instead of sorted
calculate_monthly_growth_unsorted(monthly_revenue) ==
    LET keys           == DictKeys(monthly_revenue)
        sorted_months  == [i \in 1..Len(keys) |-> keys[Len(keys) + 1 - i]]
        last_month     == DictGet(monthly_revenue, sorted_months[1], 0)
        previous_month == DictGet(monthly_revenue, sorted_months[2], 0)
    IN  IF Len(sorted_months) < 2 THEN Float(0)
        ELSE IF previous_month = 0 THEN Float(0)
        ELSE TrueDiv(last_month - previous_month, previous_month)

\* DeFiVisualizer.calculate_monthly_growth
calculate_monthly_growth(monthly_revenue) ==
    LET sorted_months  == SortedReverse(DictKeys(monthly_revenue))
        last_month     == DictGet(monthly_revenue, sorted_months[1], 0)
        previous_month == DictGet(monthly_revenue, sorted_months[2], 0)
    IN  IF Len(sorted_months) < 2 THEN Float(0)
        ELSE IF previous_month = 0 THEN Float(0)
        ELSE TrueDiv(last_month - previous_month, previous_month)

----------------------------------------------------------------------------
(* The pipeline: fetch_all_data, then process_protocol_data on its snapshot *)

Years == {2024, 2025, 2026}

\* all_data of line 138 and processed_data of line 56, as created
NewAllData == [protocols |-> <<>>, chains |-> <<>>]

NewProcessedData == [protocols |-> <<>>, chains |-> <<>>]

NoCharts == [monthly_growth |-> <<>>, fdv_ratio |-> <<>>, qoq_growth |-> <<>>]

NoRun == [runs |-> 0, responses |-> <<>>, all_data |-> NewAllData, processed |-> NewProcessedData]

Start ==
    /\ pc = "fetch_protocols"
    /\ gi = 1
    /\ vi = 1
    /\ ci = 1
    /\ responses = <<>>
    /\ all_data = NewAllData
    /\ processed = NewProcessedData
    /\ raised = "none"
    /\ previous = NoRun
    /\ charts = NoCharts

Init == Start /\ year = 2025

InitAnyYear == Start /\ year \in Years

\* fetch_all_data, lines 144-218: the group's entry is created before its first
\* version; bundle is what the three requests for protocol_id return
FetchVersion(bundle) ==
    /\ pc = "fetch_protocols"
    /\ ~(Truthy(bundle.protocol) /\ StoreVersionError(bundle) # "none")
    /\ LET protocol_group == Groups[gi].k
           protocol_id    == GroupIds(gi)[vi]
           protocols0     == IF vi = 1
                             THEN DictSet(all_data.protocols, protocol_group, NewGroup)
                             ELSE all_data.protocols
           group          == DictGet(protocols0, protocol_group, NewGroup)
       IN  /\ all_data' = [all_data EXCEPT !.protocols =
                              DictSet(protocols0, protocol_group,
                                      FetchedVersion(group, protocol_id, bundle))]
           /\ responses' = Append(responses, [k |-> protocol_id, v |-> bundle])
    /\ IF vi < Len(GroupIds(gi))
       THEN vi' = vi + 1 /\ UNCHANGED <<gi, pc>>
       ELSE /\ vi' = 1
            /\ IF gi < Len(Groups)
               THEN gi' = gi + 1 /\ pc' = pc
               ELSE gi' = 1 /\ pc' = "fetch_chains"
    /\ UNCHANGED <<ci, year, processed, raised, previous, charts>>

\* fetch_all_data ended by the exception a malformed payload raises in lines 169-215
FetchVersionRaises(bundle) ==
    /\ pc = "fetch_protocols"
    /\ Truthy(bundle.protocol) /\ StoreVersionError(bundle) # "none"
    /\ raised' = StoreVersionError(bundle)
    /\ pc' = "aborted"
    /\ responses' = Append(responses, [k |-> GroupIds(gi)[vi], v |-> bundle])
    /\ UNCHANGED <<gi, vi, ci, year, all_data, processed, previous, charts>>

\* fetch_all_data ended by the exception a malformed chain series raises at line 230
FetchChainRaises(daily_revenue_data) ==
    /\ pc = "fetch_chains"
    /\ HasChart(daily_revenue_data) /\ AggregateError(Chart(daily_revenue_data)) # "none"
    /\ raised' = AggregateError(Chart(daily_revenue_data))
    /\ pc' = "aborted"
    /\ responses' = Append(responses, [k |-> Chains[ci], v |-> daily_revenue_data])
    /\ UNCHANGED <<gi, vi, ci, year, all_data, processed, previous, charts>>

\* fetch_all_data, lines 220-243; after the last chain the snapshot is saved and
\* process_protocol_data starts on it
FetchChain(daily_revenue_data) ==
    /\ pc = "fetch_chains"
    /\ ~(HasChart(daily_revenue_data) /\ AggregateError(Chart(daily_revenue_data)) # "none")
    /\ all_data' = [all_data EXCEPT !.chains =
                       DictSet(@, Chains[ci], FetchedChain(daily_revenue_data, year))]
    /\ responses' = Append(responses, [k |-> Chains[ci], v |-> daily_revenue_data])
    /\ IF ci < Len(Chains)
       THEN ci' = ci + 1 /\ pc' = pc
       ELSE ci' = 1 /\ pc' = "process_protocols"
    /\ UNCHANGED <<gi, vi, year, processed, raised, previous, charts>>

\* process_protocol_data, lines 62-84: an empty "versions" raises IndexError at line 67
ProcessProtocol ==
    /\ pc = "process_protocols"
    /\ LET protocol_name == all_data.protocols[gi].k
           protocol_data == all_data.protocols[gi].v
       IN  IF protocol_data.versions = <<>>
           THEN /\ raised' = "IndexError"
                /\ pc' = "aborted"
                /\ UNCHANGED <<gi, processed>>
           ELSE LET protocol_info == ProtocolInfo(protocol_name, protocol_data)
                IN  IF protocol_info.metrics.qoq_growth.exc # "none"
                    THEN /\ raised' = protocol_info.metrics.qoq_growth.exc
                         /\ pc' = "aborted"
                         /\ UNCHANGED <<gi, processed>>
                    ELSE /\ processed' = [processed EXCEPT !.protocols = Append(@, protocol_info)]
                         /\ raised' = raised
                         /\ IF gi < Len(all_data.protocols)
                            THEN gi' = gi + 1 /\ pc' = pc
                            ELSE gi' = 1 /\ pc' = "process_chains"
    /\ UNCHANGED <<vi, ci, year, responses, all_data, previous, charts>>

\* process_protocol_data, lines 86-91
ProcessChain ==
    /\ pc = "process_chains"
    /\ LET chain_name == all_data.chains[ci].k
           chain_data == all_data.chains[ci].v
       IN  processed' = [processed EXCEPT !.chains =
               DictSet(@, chain_name,
                       [monthly_revenue |-> aggregate_chain_revenue(chain_data.monthly_revenue, year)])]
    /\ IF ci < Len(all_data.chains)
       THEN ci' = ci + 1 /\ pc' = pc
       ELSE ci' = 1 /\ pc' = "done"
    /\ UNCHANGED <<gi, vi, year, responses, all_data, raised, previous, charts>>

\* the pipeline run again as processed_data would be were it kept between the runs
RunAgainKeeping ==
    /\ pc = "done"
    /\ previous.runs = 0
    /\ previous' = [runs |-> 1, responses |-> responses, all_data |-> all_data,
                                processed |-> processed]
    /\ pc' = "fetch_protocols"
    /\ responses' = <<>>
    /\ all_data' = NewAllData
    /\ UNCHANGED <<gi, vi, ci, year, processed, raised, charts>>

\* the pipeline run a second time in the same process: fetch_all_data builds a new
\* all_data (line 138) and process_protocol_data a new processed_data (line 56)
RunAgain ==
    /\ pc = "done"
    /\ previous.runs = 0
    /\ previous' = [runs |-> 1, responses |-> responses, all_data |-> all_data,
                                processed |-> processed]
    /\ pc' = "fetch_protocols"
    /\ responses' = <<>>
    /\ all_data' = NewAllData
    /\ processed' = NewProcessedData
    /\ UNCHANGED <<gi, vi, ci, year, raised, charts>>

\* the answer the run before got to the request this run is about to make
SameAnswer == previous.responses[Len(responses) + 1].v

----------------------------------------------------------------------------
(* What the API may answer *)

StampJan1   == 19723 * 86400          \* 2024-01-01 00:00:00 UTC
StampJan31  == 19754 * 86400 - 1      \* 2024-01-31 23:59:59 UTC
StampFeb1   == 19754 * 86400          \* 2024-02-01 00:00:00 UTC
StampDec15  == 19706 * 86400          \* 2023-12-15 00:00:00 UTC

\* a timestamp inside the month that lies k months after January 2024
MidMonth(k) == 19737 * 86400 + k * 2629800

\* the answer {"totalDataChart": [[timestamp, value], ...]} for points <<timestamp, value>>
JChart(points) ==
    JDict(<< [k |-> "totalDataChart",
              v |-> [i \in 1..Len(points) |-> <<points[i][1], JInt(points[i][2])>>]] >>)

Failed == [protocol |-> None, dailyFees |-> None, dailyRevenue |-> None]

BundleA ==
    [protocol |-> JDict(<< [k |-> "name", v |-> "Aave"], [k |-> "symbol", v |-> "AAVE"],
                           [k |-> "chains", v |-> <<"Ethereum">>],
                           [k |-> "tvl", v |-> JInt(100)], [k |-> "mcap", v |-> 5] >>),
     dailyFees |-> JChart(<< <<StampJan1, 3>> >>),
     dailyRevenue |-> JChart(<< <<StampJan1, 2>>, <<StampJan31, 3>>, <<StampFeb1, 4>> >>)]

BundleB ==
    [protocol |-> JDict(<< [k |-> "tvl", v |-> JDict(<< [k |-> "ethereum", v |-> JInt(100)],
                                                        [k |-> "polygon", v |-> JInt(50)] >>)],
                           [k |-> "mcap", v |-> 9] >>),
     dailyFees |-> None,
     dailyRevenue |-> JChart(<< <<StampFeb1, 7>>, <<StampDec15, 1>> >>)]

BundleC ==
    [protocol |-> JDict(<< [k |-> "name", v |-> "C"],
                           [k |-> "tvl", v |-> JList(<< JInt(10), JInt(20), JInt(30) >>)] >>),
     dailyFees |-> JChart(<< >>),
     dailyRevenue |-> JDict(<< [k |-> "total24h", v |-> 0] >>)]

\* a payload whose revenue chart is the given daily series
BundleOf(daily_data) ==
    [protocol |-> JDict(<< [k |-> "name", v |-> "X"], [k |-> "tvl", v |-> JInt(1)] >>),
     dailyFees |-> None,
     dailyRevenue |-> JChart(daily_data)]

AllBundles == << Failed, BundleA, BundleB, BundleC >>

Next ==
    \/ \E i \in 1..Len(AllBundles) : FetchVersion(AllBundles[i])
    \/ FetchChain(None)
    \/ ProcessProtocol
    \/ ProcessChain

Spec == Init /\ [][Next]_vars

----------------------------------------------------------------------------
(* Claims on the protocol path *)

\* what the API answered for id, Failed while it has not been asked
ResponseOf(id) == DictGet(responses, id, Failed)

\* the versions of group g whose payload has been fetched, in fetch order
FetchedIds(g) ==
    SelectSeq(GroupIds(g), LAMBDA id : HasKey(responses, id) /\ Truthy(ResponseOf(id).protocol))

RawGroup(g) == DictGet(all_data.protocols, Groups[g].k, NewGroup)

\* C1: whatever versions fail to be fetched, fetch_all_data does not abort, the
\* "versions" mapping of every group it has begun holds exactly the versions whose
\* payload was fetched, in fetch order, and once the loop over the groups is over
\* every version of every group has been asked for.
C1_FailedVersionSkipped ==
    /\ \A g \in 1..Len(Groups) :
          HasKey(all_data.protocols, Groups[g].k) =>
             DictKeys(RawGroup(g).versions) = FetchedIds(g)
    /\ pc \in {"fetch_protocols", "fetch_chains"} => raised = "none"
    /\ pc # "fetch_protocols" =>
          \A g \in 1..Len(Groups) :
             /\ HasKey(all_data.protocols, Groups[g].k)
             /\ \A v \in 1..Len(GroupIds(g)) : HasKey(responses, GroupIds(g)[v])

\* C1 witness: the first version of the first group failed, a later version of the
\* group and a version of a later group were stored, and the loop has ended.
C1_Witness ==
    /\ pc = "fetch_chains"
    /\ ~Truthy(ResponseOf(GroupIds(1)[1]).protocol)
    /\ Len(RawGroup(1).versions) >= 1
    /\ Len(RawGroup(Len(Groups)).versions) >= 1

\* C2 (as claimed): when no version of some group was fetched, processing does not
\* raise and the processed protocols list leaves that group out.
C2_EmptyGroupOmitted ==
    (pc \notin {"fetch_protocols", "fetch_chains"} /\ \E g \in 1..Len(Groups) : FetchedIds(g) = <<>>)
       => /\ raised = "none"
          /\ \A i \in 1..Len(processed.protocols) :
                \A g \in 1..Len(Groups) :
                   processed.protocols[i].name = Groups[g].k => FetchedIds(g) # <<>>

----------------------------------------------------------------------------
(* The chain path: every protocol version answers BundleA, the chains' daily series vary *)

\* one point per month for n consecutive months, the first k months after January
\* 2024, in chronological order; the values rise 1, 2, ... or are all 0
MonthlyChart(first, n, rising) ==
    [k \in 1..n |-> << MidMonth(first + k - 1), IF rising THEN k ELSE 0 >>]

\* series that start in October 2023, February 2024 and December 2024
ChainStarts == {0 - 3, 1, 11}

ChainCharts(c) ==
    IF c = 1
    THEN {MonthlyChart(first, n, rising) :
             first \in ChainStarts, n \in 0..MaxMonths, rising \in BOOLEAN}
         \cup {<< <<StampFeb1, 7>>, <<StampDec15, 1>> >>}
    ELSE {<< <<StampJan1, 120>> >>}

\* a failed request, an empty object, an object without "totalDataChart"
ChartlessAnswers == << None, JDict(<< >>), JDict(<< [k |-> "total24h", v |-> 0] >>) >>

NextChain ==
    \/ FetchVersion(BundleA)
    \/ \E daily_data \in ChainCharts(ci) : FetchChain(JChart(daily_data))
    \/ \E i \in 1..Len(ChartlessAnswers) : FetchChain(ChartlessAnswers[i])
    \/ ProcessProtocol
    \/ ProcessChain

SpecChain == InitAnyYear /\ [][NextChain]_vars

----------------------------------------------------------------------------
(* Claims on the chain path *)

\* the monthly series observed for a chain: the aggregate of the daily series it answered
Observed(chain) == ChartMonthly(DictGet(responses, chain, None))

RawChain(chain) == DictGet(all_data.chains, chain, [monthly_revenue |-> <<>>]).monthly_revenue

ProcessedChain(chain) == DictGet(processed.chains, chain, [monthly_revenue |-> <<>>]).monthly_revenue

\* twelve keys "<y>-01" .. "<y>-12", each valued v
FlatYear(y, v) == [i \in 1..12 |-> [k |-> MonthKey(y, i), v |-> v]]

\* the value of the chronologically most recent month of a non-empty series
MostRecentValue(series) ==
    LET i == CHOOSE i \in 1..Len(series) :
                 \A j \in 1..Len(series) : j = i \/ StrLess(series[j].k, series[i].k)
    IN  series[i].v

\* the points of a daily series come in chronological order
Chronological(daily_data) ==
    \A i \in 1..Len(daily_data) : \A j \in 1..Len(daily_data) :
        i < j => daily_data[i][1] <= daily_data[j][1]

\* C3 (as claimed): in both stages the fallback is taken exactly when the series has
\* fewer than 12 months, and a series of 12 months or more is returned unchanged.
C3_FallbackIffUnder12Months ==
    /\ \A c \in 1..Len(all_data.chains) :
          LET observed == Observed(all_data.chains[c].k)
              stored   == all_data.chains[c].v.monthly_revenue
          IN  IF Len(observed) >= 12
              THEN stored = observed
              ELSE stored = FlatYear(year, stored[1].v)
    /\ \A c \in 1..Len(processed.chains) :
          LET stored == RawChain(processed.chains[c].k)
              result == processed.chains[c].v.monthly_revenue
          IN  IF Len(stored) >= 12
              THEN result = stored
              ELSE result = FlatYear(year, result[1].v)

\* C4: a chain whose daily points come in chronological order and fall in 1 to 11
\* months is stored by the fetch stage as the twelve keys of the current year, each
\* valued v, the value of its most recent month; the values sum to 12 * v.
C4_FallbackSpreadsLastMonth ==
    \A c \in 1..Len(all_data.chains) :
       LET answer   == DictGet(responses, all_data.chains[c].k, None)
           observed == Observed(all_data.chains[c].k)
           stored   == all_data.chains[c].v.monthly_revenue
       IN  (HasChart(answer) /\ Chronological(Chart(answer)) /\ Len(observed) \in 1..11) =>
              /\ stored = FlatYear(year, MostRecentValue(observed))
              /\ Len(stored) = 12
              /\ SumSeq(DictValues(stored)) = 12 * MostRecentValue(observed)

\* C4 witness: a chain answered 11 months valued 1..11 and is stored as twelve months
\* of 11; another answered the single month {"2024-01": 120} and is stored as twelve
\* months of 120, 1440 in all.
C4_Witness ==
    /\ Len(all_data.chains) >= 2
    /\ Len(Observed(Chains[1])) = 11
    /\ Observed(Chains[1])[1].v = 1
    /\ RawChain(Chains[1]) = FlatYear(year, 11)
    /\ Observed(Chains[2]) = << [k |-> MonthKey(2024, 1), v |-> 120] >>
    /\ SumSeq(DictValues(RawChain(Chains[2]))) = 1440

\* the twelve keys are twelve consecutive calendar months, in order
TwelveConsecutiveMonths(series) ==
    /\ Len(series) = 12
    /\ \E y \in 2020..2030 : \E m \in 1..12 :
          \A i \in 1..12 :
             series[i].k = MonthKey(y + ((m + i - 2) \div 12), ((m + i - 2) % 12) + 1)

\* C5: whatever a chain answered, its record in the processed output has a monthly
\* series of exactly 12 keys that are 12 consecutive calendar months, and a run that
\* reaches its end has such a record for every configured chain.
C5_TwelveConsecutiveMonths ==
    /\ \A c \in 1..Len(processed.chains) :
          TwelveConsecutiveMonths(processed.chains[c].v.monthly_revenue)
    /\ pc = "done" => DictKeys(processed.chains) = Chains

\* C5 witness: the run is over; the first chain answered 12 months or more that meet
\* the window, a later chain's request failed.
C5_Witness ==
    /\ pc = "done"
    /\ Len(Observed(Chains[1])) >= 12
    /\ SumSeq(DictValues(ProcessedChain(Chains[1]))) # 0
    /\ ProcessedChain(Chains[1])[1].k = MonthKey(2024, 2)
    /\ DictGet(responses, Chains[Len(Chains)], JDict(<<>>)) = None

----------------------------------------------------------------------------
(* The aggregation path: the revenue chart of the first version of the first group is
   any daily series of at most MaxPoints points *)

AggPoints == {StampJan1, StampJan31, StampFeb1} \X {0 - 1, 2}

ShortCharts == UNION {[1..n -> AggPoints] : n \in 0..MaxPoints}

AggCharts(g, v) == IF g = 1 /\ v = 1 THEN ShortCharts ELSE {}

AggBundles(g, v) ==
    IF g = 1 /\ v = 1 THEN << >>
    ELSE IF g = 1 /\ v = 2 THEN << Failed, BundleA, BundleB >>
    ELSE IF g = 1 THEN << Failed >>
    ELSE << BundleC >>

NextAgg ==
    \/ \E daily_data \in AggCharts(gi, vi) : FetchVersion(BundleOf(daily_data))
    \/ \E i \in 1..Len(AggBundles(gi, vi)) : FetchVersion(AggBundles(gi, vi)[i])
    \/ FetchChain(None)
    \/ ProcessProtocol
    \/ ProcessChain

SpecAgg == Init /\ [][NextAgg]_vars

----------------------------------------------------------------------------
(* Claims on the aggregation path *)

Range(s) == {s[i] : i \in 1..Len(s)}

\* the index in Groups of a processed protocol
GroupOf(protocol_info) == CHOOSE g \in 1..Len(Groups) : Groups[g].k = protocol_info.name

\* the daily revenue points a version answered, none without a chart
DailyPoints(id) ==
    IF HasChart(ResponseOf(id).dailyRevenue) THEN Chart(ResponseOf(id).dailyRevenue) ELSE << >>

PointSum(daily_data) == SumSeq([i \in 1..Len(daily_data) |-> daily_data[i][2].v])

\* C9: for a group with a single fetched version, the values of the monthly series
\* got by aggregating the version's daily points and merging that one series sum to
\* the sum of the values of the points.
C9_AggregationPreservesSum ==
    \A i \in 1..Len(processed.protocols) :
       LET ids == FetchedIds(GroupOf(processed.protocols[i]))
       IN  Len(ids) = 1 =>
              SumSeq(DictValues(processed.protocols[i].monthly_revenue.d))
                 = PointSum(DailyPoints(ids[1]))

\* C9 witness: the single fetched version of a processed group answered three points,
\* two of them in the same month, and the merged series has two months.
C9_Witness ==
    \E i \in 1..Len(processed.protocols) :
       LET ids == FetchedIds(GroupOf(processed.protocols[i]))
       IN  /\ Len(ids) = 1
           /\ DailyPoints(ids[1]) =
                 Chart(JChart(<< <<StampJan1, 2>>, <<StampFeb1, 0 - 1>>, <<StampJan31, 2>> >>))
           /\ processed.protocols[i].monthly_revenue.d =
                 << [k |-> MonthKey(2024, 1), v |-> 4], [k |-> MonthKey(2024, 2), v |-> 0 - 1] >>

\* C10: the merged monthly series of a group has each month key once, its key set is
\* the union of the key sets of the versions' series, and its value at a key is the
\* sum of the values the versions' series have there (0 where a series lacks the key).
C10_MergeIsKeywiseSum ==
    \A i \in 1..Len(processed.protocols) :
       LET series == DictValues(RawGroup(GroupOf(processed.protocols[i])).monthly_revenue)
           merged == processed.protocols[i].monthly_revenue.d
       IN  /\ Cardinality(Range(DictKeys(merged))) = Len(merged)
           /\ Range(DictKeys(merged)) = UNION {Range(DictKeys(series[j].d)) : j \in 1..Len(series)}
           /\ \A m \in 1..Len(merged) :
                 merged[m].v = SumSeq([j \in 1..Len(series) |-> DictGet(series[j].d, merged[m].k, 0)])

\* C10 witness: two versions were merged; they share February 2024, and each has a
\* month the other lacks.
C10_Witness ==
    \E i \in 1..Len(processed.protocols) :
       LET series == DictValues(RawGroup(GroupOf(processed.protocols[i])).monthly_revenue)
           merged == processed.protocols[i].monthly_revenue.d
       IN  /\ Len(series) = 2
           /\ HasKey(series[1].d, MonthKey(2024, 1)) /\ ~HasKey(series[2].d, MonthKey(2024, 1))
           /\ HasKey(series[2].d, MonthKey(2023, 12)) /\ ~HasKey(series[1].d, MonthKey(2023, 12))
           /\ DictGet(series[1].d, MonthKey(2024, 2), 0) = 2
           /\ DictGet(series[2].d, MonthKey(2024, 2), 0) = 7
           /\ DictGet(merged, MonthKey(2024, 2), 0) = 9
           /\ Len(merged) = 3

----------------------------------------------------------------------------
(* The growth path: the first version of the first group answers up to MaxMonths
   months of revenue from January 2024 on, its second version a single older or
   recent month *)

\* the value of month k of n, by pattern
PatternValue(pattern, n, k) ==
    CASE pattern = "rising"       -> k
      [] pattern = "zero"         -> 0
      [] pattern = "300-200"      -> IF k > n - 4 THEN 100 ELSE IF k > n - 6 THEN 50 ELSE 10
      [] pattern = "last-zero"    -> IF k > n - 3 THEN 0 ELSE k
      [] pattern = "previous-zero" -> IF k > n - 6 /\ k <= n - 3 THEN 0 ELSE k

Patterns == {"rising", "zero", "300-200", "last-zero", "previous-zero"}

QoqChart(n, pattern) == [k \in 1..n |-> << MidMonth(k - 1), PatternValue(pattern, n, k) >>]

QoqCharts(g, v) ==
    IF g = 1 /\ v = 1
    THEN {QoqChart(n, pattern) : n \in 0..MaxMonths, pattern \in Patterns}
    ELSE {}

QoqBundles(g, v) ==
    IF g = 1 /\ v = 1 THEN << >>
    ELSE IF g = 1 /\ v = 2
         THEN << Failed,
                 BundleOf(<< <<MidMonth(0 - 1), 5>> >>),
                 BundleOf(<< <<MidMonth(0 - 1), 0>> >>),
                 BundleOf(<< <<MidMonth(11), 3>> >>) >>
         ELSE << BundleC >>

NextQoq ==
    \/ \E daily_data \in QoqCharts(gi, vi) : FetchVersion(BundleOf(daily_data))
    \/ \E i \in 1..Len(QoqBundles(gi, vi)) : FetchVersion(QoqBundles(gi, vi)[i])
    \/ FetchChain(None)
    \/ ProcessProtocol
    \/ ProcessChain

SpecQoq == Init /\ [][NextQoq]_vars

----------------------------------------------------------------------------
(* Claims on the growth path *)

Merged(i) == processed.protocols[i].monthly_revenue.d

Growth(i) == processed.protocols[i].metrics.qoq_growth

\* the months of the last and of the previous quarter: the 3 greatest keys, the next 3
LastQuarterMonths(series) == Slice(SortedReverse(DictKeys(series)), 0, 3)

PreviousQuarterMonths(series) == Slice(SortedReverse(DictKeys(series)), 3, 6)

\* L and P: the sums of the two quarters
QuarterL(series) == SumSeq([j \in 1..3 |-> DictGet(series, LastQuarterMonths(series)[j], 0)])

QuarterP(series) == SumSeq([j \in 1..3 |-> DictGet(series, PreviousQuarterMonths(series)[j], 0)])

\* C6 (as claimed): the growth is 0.0 for fewer than 6 month keys, and (L - P) / P
\* for 6 or more when neither quarter sums to 0.
C6_GrowthFrom6Months ==
    \A i \in 1..Len(processed.protocols) :
       LET series == Merged(i)
       IN  /\ Len(series) < 6 => Growth(i) = Float(0)
           /\ (Len(series) >= 6 /\ QuarterL(series) # 0 /\ QuarterP(series) # 0) =>
                 Growth(i) = TrueDiv(QuarterL(series) - QuarterP(series), QuarterP(series))

\* C6 (amended): the growth is 0.0 for fewer than 12 month keys, and (L - P) / P for
\* 12 or more when neither quarter sums to 0; so the processing stage stores it, and
\* so the visualizer computes it from the merged series.
C6_GrowthFrom12Months ==
    \A i \in 1..Len(processed.protocols) :
       LET series == Merged(i)
       IN  /\ Len(series) < 12 =>
                 /\ Growth(i) = Float(0)
                 /\ DeFiVisualizer_calculate_qoq_growth(series) = Float(0)
           /\ (Len(series) >= 12 /\ QuarterL(series) # 0 /\ QuarterP(series) # 0) =>
                 /\ Growth(i) = TrueDiv(QuarterL(series) - QuarterP(series), QuarterP(series))
                 /\ DeFiVisualizer_calculate_qoq_growth(series) = Growth(i)

\* C6 witness: a processed series of 12 months or more with L = 300 and P = 200 has
\* growth 1/2.
C6_Witness ==
    \E i \in 1..Len(processed.protocols) :
       /\ Len(Merged(i)) >= 12
       /\ QuarterL(Merged(i)) = 300
       /\ QuarterP(Merged(i)) = 200
       /\ Growth(i) = [exc |-> "none", n |-> 1, d |-> 2]

\* C7 (as claimed): when a quarter of a merged series sums to 0, the value taken for
\* it is 4 times the value of the greatest month key, and the stored growth is the
\* growth of the quarters so substituted.
C7_SubstituteIsMostRecentMonth ==
    \A i \in 1..Len(processed.protocols) :
       LET series == Merged(i)
           recent == 4 * MostRecentValue(series)
           last_quarter     == IF QuarterL(series) = 0 THEN recent ELSE QuarterL(series)
           previous_quarter == IF QuarterP(series) = 0 THEN recent ELSE QuarterP(series)
       IN  Len(series) >= 12 =>
              /\ get_quarter_revenue(series, LastQuarterMonths(series)) = last_quarter
              /\ get_quarter_revenue(series, PreviousQuarterMonths(series)) = previous_quarter
              /\ Growth(i) = IF previous_quarter = 0 THEN Float(0)
                             ELSE TrueDiv(last_quarter - previous_quarter, previous_quarter)

\* C8: processing never ends in ZeroDivisionError, and the growth of a series whose
\* previous quarter is 0 after the substitution is 0.0.
C8_NoDivisionByZero ==
    /\ raised # "ZeroDivisionError"
    /\ \A i \in 1..Len(processed.protocols) :
          get_quarter_revenue(Merged(i), PreviousQuarterMonths(Merged(i))) = 0 =>
             Growth(i) = Float(0)

\* C8 witness: a processed series of 12 months or more whose last quarter is not 0
\* and whose previous quarter is 0 after the substitution.
C8_Witness ==
    \E i \in 1..Len(processed.protocols) :
       /\ Len(Merged(i)) >= 12
       /\ QuarterL(Merged(i)) # 0
       /\ QuarterP(Merged(i)) = 0
       /\ get_quarter_revenue(Merged(i), PreviousQuarterMonths(Merged(i))) = 0
       /\ Growth(i) = Float(0)

----------------------------------------------------------------------------
(* Payloads of mixed and malformed shape *)

Str42_5 == <<52, 50, 46, 53>>     \* "42.5"
StrFive == <<53>>                 \* "5"
StrAbc  == <<97, 98, 99>>         \* "abc"

ChainBreakdown == JDict(<< [k |-> "ethereum", v |-> JInt(100)], [k |-> "polygon", v |-> JInt(50)] >>)

\* one history point of the provider: {"date": ..., "totalLiquidityUSD": ...}
HistoryPoint == JDict(<< [k |-> "date", v |-> JInt(86400)], [k |-> "totalLiquidityUSD", v |-> JInt(100)] >>)

\* the values of the "tvl" field
TvlShapes ==
    << None, JInt(7), JStr(Str42_5), JStr(StrFive), JStr(StrAbc),
       ChainBreakdown, JDict(<< >>), JDict(<< [k |-> "ethereum", v |-> JStr(StrAbc)] >>),
       JList(<< JInt(10), JInt(20), JInt(30) >>), JList(<< >>),
       JList(<< JInt(10), JStr(StrFive) >>), JList(<< HistoryPoint >>) >>

\* the answers to a fees or revenue request: none, no points array, a well-formed
\* series, a point whose value is null, a point without a value
SeriesShapes ==
    << None,
       JDict(<< [k |-> "total24h", v |-> JInt(5)] >>),
       JChart(<< <<StampJan1, 2>>, <<StampFeb1, 4>> >>),
       JDict(<< [k |-> "totalDataChart", v |-> << <<StampJan1, JInt(2)>>, <<StampFeb1, None>> >>] >>),
       JDict(<< [k |-> "totalDataChart", v |-> << <<StampJan1, JInt(2)>>, <<StampFeb1>> >>] >>) >>

TvlBundle(tvl_data) ==
    [protocol |-> JDict(<< [k |-> "name", v |-> "X"], [k |-> "tvl", v |-> tvl_data] >>),
     dailyFees |-> SeriesShapes[3],
     dailyRevenue |-> SeriesShapes[3]]

SeriesBundle(fees_data, revenue_data) ==
    [protocol |-> JDict(<< [k |-> "name", v |-> "X"] >>),
     dailyFees |-> fees_data,
     dailyRevenue |-> revenue_data]

\* the first two versions of the first group take every shape, the other versions a
\* well-formed payload
ShapeBundles(g, v) ==
    IF g = 1 /\ v <= 2
    THEN << Failed >>
         \o [i \in 1..Len(TvlShapes) |-> TvlBundle(TvlShapes[i])]
         \o [i \in 1..Len(SeriesShapes) |-> SeriesBundle(SeriesShapes[i], SeriesShapes[3])]
         \o [i \in 1..Len(SeriesShapes) |-> SeriesBundle(SeriesShapes[1], SeriesShapes[i])]
    ELSE IF g = 1 THEN << BundleA >>
    ELSE << BundleB >>

ChainShapes(c) ==
    IF c = 1 THEN SeriesShapes ELSE << None >>

NextShape ==
    \/ \E i \in 1..Len(ShapeBundles(gi, vi)) : FetchVersion(ShapeBundles(gi, vi)[i])
    \/ \E i \in 1..Len(ShapeBundles(gi, vi)) : FetchVersionRaises(ShapeBundles(gi, vi)[i])
    \/ \E i \in 1..Len(ChainShapes(ci)) : FetchChain(ChainShapes(ci)[i])
    \/ \E i \in 1..Len(ChainShapes(ci)) : FetchChainRaises(ChainShapes(ci)[i])
    \/ ProcessProtocol
    \/ ProcessChain

SpecShape == Init /\ [][NextShape]_vars

----------------------------------------------------------------------------
(* Claims on the normalisation of a payload *)

\* the ids of the versions stored in the snapshot, and the record stored for one
StoredIds ==
    UNION {{all_data.protocols[g].v.versions[i].k : i \in 1..Len(all_data.protocols[g].v.versions)} :
              g \in 1..Len(all_data.protocols)}

StoredRecord(id) ==
    LET g == CHOOSE g \in 1..Len(all_data.protocols) : HasKey(all_data.protocols[g].v.versions, id)
    IN  DictGet(all_data.protocols[g].v.versions, id, None)

\* the "tvl" field of the payload answered for id, None when the payload has none
RawTvl(id) == DictGet(ResponseOf(id).protocol.d, "tvl", None)

AllNumbers(values) == \A i \in 1..Len(values) : IsNumber(values[i])

\* the sum of a sequence of integral amounts
IntSum(values) == SumSeq([i \in 1..Len(values) |-> values[i].v])

\* C11: the tvl stored for a version is the sum of the amounts of a chain mapping, else
\* the last element of a non-empty list, else the number a scalar stands for ("42.5"
\* gives 42.5, "5" gives 5), else 0 for an absent field, None or an empty list.
C11_TvlPriorityOrder ==
    \A id \in StoredIds :
       LET tvl_data == RawTvl(id)
           tvl      == StoredRecord(id).tvl
       IN  /\ (tvl_data.t = "dict" /\ AllNumbers(DictValues(tvl_data.d))) =>
                 tvl = JInt(IntSum(DictValues(tvl_data.d)))
           /\ (tvl_data.t = "list" /\ tvl_data.l # <<>>) => tvl = tvl_data.l[Len(tvl_data.l)]
           /\ IsNumber(tvl_data) => tvl = tvl_data
           /\ tvl_data = JStr(Str42_5) => tvl = [t |-> "float", n |-> 85, d |-> 2]
           /\ tvl_data = JStr(StrFive) => tvl = JInt(5)
           /\ (tvl_data = None \/ tvl_data = JList(<< >>)) => tvl = JInt(0)

\* C11 witness: the snapshot holds a version whose tvl 150 comes from the mapping
\* {ethereum: 100, polygon: 50}, one whose tvl 30 comes from the list [10, 20, 30] and
\* one whose tvl 42.5 comes from the text "42.5".
C11_Witness ==
    /\ pc = "done"
    /\ \E a, b, c \in StoredIds :
          /\ RawTvl(a) = ChainBreakdown /\ StoredRecord(a).tvl = JInt(150)
          /\ RawTvl(b) = JList(<< JInt(10), JInt(20), JInt(30) >>) /\ StoredRecord(b).tvl = JInt(30)
          /\ RawTvl(c) = JStr(Str42_5) /\ StoredRecord(c).tvl = [t |-> "float", n |-> 85, d |-> 2]

\* the versions the API has answered with a payload, in configuration order
AnsweredIds ==
    {id \in UNION {Range(GroupIds(g)) : g \in 1..Len(Groups)} : HasKey(responses, id)}

HasPayload(id) == id \in AnsweredIds /\ Truthy(ResponseOf(id).protocol)

\* a tvl field that is present and stands for no number: a text that is no numeral, a
\* chain mapping with an amount that is no number
NotCoercible(tvl_data) ==
    \/ tvl_data = JStr(StrAbc)
    \/ tvl_data.t = "dict" /\ ~AllNumbers(DictValues(tvl_data.d))

\* C12: a payload whose tvl field is present and not coercible to a number is stored
\* with tvl 0, and the run is not ended by an exception.
C12_MalformedTvlIsZero ==
    \A id \in AnsweredIds :
       (HasPayload(id) /\ NotCoercible(RawTvl(id))) =>
          /\ raised = "none"
          /\ id \in StoredIds
          /\ StoredRecord(id).tvl = JInt(0)

\* the sum of the values of a series that are numbers; 0 without a points array
RECURSIVE NumericTotal(_)
NumericTotal(daily_data) ==
    IF daily_data = <<>> THEN 0
    ELSE (IF Len(Head(daily_data)) >= 2 /\ Head(daily_data)[2].t = "int"
          THEN Head(daily_data)[2].v ELSE 0) + NumericTotal(Tail(daily_data))

SeriesTotal(data) == IF HasChart(data) THEN NumericTotal(Chart(data)) ELSE 0

\* C13: whatever the fees and revenue answers of a payload (none, no points array,
\* points whose value is missing or null), the version is stored with the numeric
\* totals of the values that are numbers, and the run is not ended by an exception.
C13_FeesRevenueNeverRaise ==
    \A id \in AnsweredIds :
       (HasPayload(id) /\ ~HasKey(ResponseOf(id).protocol.d, "tvl")) =>
          /\ raised = "none"
          /\ id \in StoredIds
          /\ StoredRecord(id).fees = SeriesTotal(ResponseOf(id).dailyFees)
          /\ StoredRecord(id).revenue = SeriesTotal(ResponseOf(id).dailyRevenue)

\* the values of one field over the version records of a group, in fetch order
FieldOf(group, field) == [i \in 1..Len(group.versions) |-> group.versions[i].v[field]]

\* C14: in every group of the snapshot the aggregated tvl, fees and revenue are the
\* sums of the tvl, fees and revenue of the group's version records.
C14_AggregatedIsSumOfVersions ==
    \A g \in 1..Len(all_data.protocols) :
       LET group == all_data.protocols[g].v
       IN  /\ AllNumbers(FieldOf(group, "tvl"))
           /\ group.aggregated.tvl = SumValues(FieldOf(group, "tvl"))
           /\ group.aggregated.fees = SumSeq(FieldOf(group, "fees"))
           /\ group.aggregated.revenue = SumSeq(FieldOf(group, "revenue"))

----------------------------------------------------------------------------
(* Claims on the representative version *)

----------------------------------------------------------------------------
(* Claims on the month keys *)

\* the number of days from 1970-01-01 to the civil date y-m-d
DaysFromCivil(y, m, d) ==
    LET yy  == IF m <= 2 THEN y - 1 ELSE y
        era == yy \div 400
        yoe == yy - era * 400
        doy == (153 * (IF m > 2 THEN m - 3 ELSE m + 9) + 2) \div 5 + d - 1
        doe == yoe * 365 + (yoe \div 4) - (yoe \div 100) + doy
    IN  era * 146097 + doe - 719468

\* the first second of the UTC month y-m, and of the month after it
MonthStart(y, m) == DaysFromCivil(y, m, 1) * 86400

MonthEnd(y, m) == IF m = 12 THEN MonthStart(y + 1, 1) ELSE MonthStart(y, m + 1)

\* the monthly series the fetch stage stored for a version
RawSeries(id) ==
    LET g == CHOOSE g \in 1..Len(all_data.protocols) : HasKey(all_data.protocols[g].v.versions, id)
    IN  DictGet(all_data.protocols[g].v.monthly_revenue, id, JDict(<< >>)).d

\* C16: the monthly series of a daily series has a key 'YYYY-MM' (7 characters, the
\* month zero-padded) for exactly the UTC months that hold one of its points, each key
\* once; the empty daily series gives the empty mapping, without an exception.
C16_KeysAreMonthsWithPoints ==
    /\ raised = "none"
    /\ \A id \in StoredIds :
          LET series == RawSeries(id)
              points == DailyPoints(id)
          IN  /\ \A y \in 2023..2025, m \in 1..12 :
                    HasKey(series, MonthKey(y, m)) <=>
                       \E i \in 1..Len(points) :
                          MonthStart(y, m) <= points[i][1] /\ points[i][1] < MonthEnd(y, m)
              /\ \A i \in 1..Len(series) :
                    /\ Len(series[i].k) = 7
                    /\ series[i].k[5] = 45
                    /\ \E y \in 2023..2025, m \in 1..12 : series[i].k = MonthKey(y, m)
                    /\ \A j \in 1..Len(series) : series[j].k = series[i].k => j = i
              /\ points = << >> => series = << >>

\* C16 witness: a version answered the last second of January and the first of
\* February 2024 and has the two keys, the next version answered February 2024 and
\* December 2023 in that order and has those two.
C16_Witness ==
    /\ pc = "done"
    /\ \E a, b \in StoredIds :
          /\ DailyPoints(a) = Chart(JChart(<< <<StampJan31, 2>>, <<StampFeb1, 2>> >>))
          /\ DictKeys(RawSeries(a)) = << MonthKey(2024, 1), MonthKey(2024, 2) >>
          /\ MonthKey(2024, 1) = << 50, 48, 50, 52, 45, 48, 49 >>
          /\ ResponseOf(b) = BundleB
          /\ DictKeys(RawSeries(b)) = << MonthKey(2024, 2), MonthKey(2023, 12) >>

----------------------------------------------------------------------------
(* Two runs on the same answers *)

\* the first two versions of the first group take every answer, the first version of
\* the other groups two of them, every other version fails
TwiceBundles(g, v) ==
    IF g = 1 /\ v <= 2 THEN AllBundles
    ELSE IF v = 1 THEN << BundleB, BundleC >>
    ELSE << Failed >>

NextTwice ==
    \/ previous.runs = 0 /\ \E i \in 1..Len(TwiceBundles(gi, vi)) : FetchVersion(TwiceBundles(gi, vi)[i])
    \/ previous.runs = 0 /\ FetchChain(None)
    \/ previous.runs = 1 /\ FetchVersion(SameAnswer)
    \/ previous.runs = 1 /\ FetchChain(SameAnswer)
    \/ ProcessProtocol
    \/ ProcessChain
    \/ RunAgain

SpecTwice == Init /\ [][NextTwice]_vars

\* C17: a second run on the same answers and the same clock ends with the same
\* snapshot (aggregated metrics, versions) and the same processed data (metrics and
\* merged monthly series) as the first.
C17_SecondRunIdentical ==
    (pc = "done" /\ previous.runs = 1) =>
       /\ all_data = previous.all_data
       /\ processed = previous.processed
       /\ \A i \in 1..Len(processed.protocols) :
             /\ processed.protocols[i].metrics = previous.processed.protocols[i].metrics
             /\ processed.protocols[i].monthly_revenue = previous.processed.protocols[i].monthly_revenue

\* C17 witness: the second run has ended; the first group's two versions were fetched
\* in both runs, and its aggregated tvl 250 and revenue 17 are there once, not twice.
C17_Witness ==
    /\ pc = "done"
    /\ previous.runs = 1
    /\ ResponseOf(GroupIds(1)[1]) = BundleA /\ ResponseOf(GroupIds(1)[2]) = BundleB
    /\ Len(processed.protocols) = Len(Groups)
    /\ processed.protocols[1].metrics.tvl = JInt(250)
    /\ processed.protocols[1].metrics.revenue = 17
    /\ DictGet(processed.protocols[1].monthly_revenue.d, MonthKey(2024, 2), 0) = 11

----------------------------------------------------------------------------
(* The visualizer on a processed file *)

\* create_dashboard, lines 501-511: the growth of every protocol of the loaded file
CalculateMonthlyGrowth ==
    /\ pc = "loaded"
    /\ charts' = [charts EXCEPT !.monthly_growth =
                     [i \in 1..Len(processed.protocols) |->
                         calculate_monthly_growth(processed.protocols[i].monthly_revenue.d)]]
    /\ pc' = "growth"
    /\ UNCHANGED <<gi, vi, ci, year, responses, all_data, processed, raised, previous>>

\* create_fdv_ratio_chart: the ranked ratios of the loaded protocols
CalculateFdvRatio ==
    /\ pc = "growth"
    /\ charts' = [charts EXCEPT !.fdv_ratio = calculate_fdv_ratio(processed.protocols)]
    /\ pc' = "drawn"
    /\ UNCHANGED <<gi, vi, ci, year, responses, all_data, processed, raised, previous>>

StrAave     == <<65, 97, 118, 101>>
StrCompound == <<67, 111, 109, 112, 111, 117, 110, 100, 32, 70, 105, 110, 97, 110, 99, 101>>
StrLido     == <<76, 105, 100, 111>>
StrMaker    == <<77, 97, 107, 101, 114>>

VizNames == {StrAave, StrCompound, StrLido, StrMaker}

\* the k-th month from December 2023 on
VizMonth(k) == IF k = 1 THEN MonthKey(2023, 12) ELSE MonthKey(2024, k - 1)

VizValues == {0, 2, 0 - 2}

\* the monthly series of up to MaxPoints of the first MaxPoints months, in any order
VizSeries ==
    UNION {{[i \in 1..n |-> [k |-> VizMonth(ms[i]), v |-> vs[i]]] :
               ms \in {f \in [1..n -> 1..MaxPoints] : \A i, j \in 1..n : f[i] = f[j] => i = j},
               vs \in [1..n -> VizValues]} : n \in 0..MaxPoints}

VizProtocol(displayName, series) ==
    [displayName |-> displayName, monthly_revenue |-> JDict(series)]

\* the protocols after the first of the file: none, one with revenue, or one without
\* revenue before one with revenue
VizRest ==
    { << >>,
      << VizProtocol(StrLido, << [k |-> VizMonth(2), v |-> 5] >>) >>,
      << VizProtocol(StrMaker, << >>), VizProtocol(StrLido, << [k |-> VizMonth(2), v |-> 5] >>) >> }

InitViz ==
    /\ pc = "loaded"
    /\ gi = 1 /\ vi = 1 /\ ci = 1 /\ year = 2025
    /\ responses = <<>>
    /\ all_data = NewAllData
    /\ processed \in {[protocols |-> << VizProtocol(name, series) >> \o rest, chains |-> <<>>] :
                         name \in VizNames, series \in VizSeries, rest \in VizRest}
    /\ raised = "none"
    /\ previous = NoRun
    /\ charts = NoCharts

NextViz ==
    \/ CalculateMonthlyGrowth
    \/ CalculateFdvRatio

SpecViz == InitViz /\ [][NextViz]_vars

----------------------------------------------------------------------------
(* Claims on the visualizer's calculations *)

\* the index in a series of its greatest month key, and of the greatest of the others
Latest(series) ==
    CHOOSE a \in 1..Len(series) :
       \A j \in 1..Len(series) : j = a \/ StrLess(series[j].k, series[a].k)

SecondLatest(series) ==
    CHOOSE b \in 1..Len(series) :
       /\ b # Latest(series)
       /\ \A j \in 1..Len(series) : j \in {b, Latest(series)} \/ StrLess(series[j].k, series[b].k)

\* C18: the month-over-month growth of a series is 0.0 when it has fewer than 2 month
\* keys or when the value m2 of its second greatest key is 0, and else the quotient
\* (m1 - m2) / m2 with m1 the value of its greatest key.
C18_MonthlyGrowth ==
    \A i \in 1..Len(charts.monthly_growth) :
       LET series == processed.protocols[i].monthly_revenue.d
           growth == charts.monthly_growth[i]
       IN  /\ growth.exc = "none"
           /\ Len(series) < 2 => growth = Float(0)
           /\ Len(series) >= 2 =>
                 LET m1 == series[Latest(series)].v
                     m2 == series[SecondLatest(series)].v
                 IN  IF m2 = 0 THEN growth = Float(0)
                     ELSE growth.d > 0 /\ growth.n * m2 = (m1 - m2) * growth.d

\* C18 witness: the growth has been computed for a series stored in the order of the
\* months 2024-01, 2024-02, 2023-12 with values -2, 2, 2, giving (2 - -2) / -2 = -2,
\* and for a series of a single month, giving 0.0.
C18_Witness ==
    /\ pc = "growth"
    /\ Len(processed.protocols) = 2
    /\ processed.protocols[1].monthly_revenue.d =
          << [k |-> MonthKey(2024, 1), v |-> 0 - 2], [k |-> MonthKey(2024, 2), v |-> 2],
             [k |-> MonthKey(2023, 12), v |-> 2] >>
    /\ charts.monthly_growth[1] = Float(0 - 2)
    /\ Len(processed.protocols[2].monthly_revenue.d) = 1
    /\ charts.monthly_growth[2] = Float(0)

\* C20: once the ratios are computed, every protocol of the file whose annual revenue
\* is 0, also after the substitution of 12 times the last month, is in the returned
\* list with an infinite ratio; no division by zero happens; and no entry of infinite
\* ratio comes before an entry of finite ratio.
C20_ZeroRevenueIsInfinite ==
    pc = "drawn" =>
       /\ raised = "none"
       /\ \A i \in 1..Len(charts.fdv_ratio) : charts.fdv_ratio[i].ratio.exc = "none"
       /\ \A i \in 1..Len(processed.protocols) :
             LET series == processed.protocols[i].monthly_revenue.d
             IN  (SumSeq(DictValues(series)) = 0 /\ SumSeq(LastSlice(DictValues(series))) = 0) =>
                    \E j \in 1..Len(charts.fdv_ratio) :
                       /\ charts.fdv_ratio[j].name = processed.protocols[i].displayName
                       /\ charts.fdv_ratio[j].ratio = Infinity
       /\ \A a, b \in 1..Len(charts.fdv_ratio) :
             (a < b /\ charts.fdv_ratio[a].ratio = Infinity) => charts.fdv_ratio[b].ratio = Infinity

----------------------------------------------------------------------------
(* Claims on the order of the processed protocols *)

\* C19: the final protocol list is in descending order of market cap, equal market
\* caps in input order, cut to the first 5 entries, with at most one entry (the
\* designated protocol) after them, and holds no protocol twice.
C19_RankedByMarketCap ==
    pc = "done" =>
       LET protocols == processed.protocols
           top       == Min(5, Len(protocols))
       IN  /\ Len(protocols) <= 5 + 1
           /\ \A a, b \in 1..top :
                 a < b =>
                    \/ protocols[a].metrics.marketCap > protocols[b].metrics.marketCap
                    \/ /\ protocols[a].metrics.marketCap = protocols[b].metrics.marketCap
                       /\ GroupOf(protocols[a]) < GroupOf(protocols[b])
           /\ \A a, b \in 1..Len(protocols) : protocols[a].name = protocols[b].name => a = b

----------------------------------------------------------------------------
(* Claims on the two stages together *)

\* the fetch stage took its fallback for the chain: it answered fewer than 12 months
Synthesized(chain) == Len(Observed(chain)) < 12

\* C21: in every processing year, a chain series that the fetch stage synthesized
\* (twelve keys "<year>-01" .. "<year>-12", each valued v) leaves the process stage
\* as twelve months each valued v, 12 * v in all.
C21_SynthesizedSeriesPreserved ==
    \A c \in 1..Len(processed.chains) :
       LET chain  == processed.chains[c].k
           stored == RawChain(chain)
           result == processed.chains[c].v.monthly_revenue
       IN  (Synthesized(chain) /\ stored = FlatYear(year, stored[1].v)) =>
              /\ Len(result) = 12
              /\ \A i \in 1..12 : result[i].v = stored[1].v
              /\ SumSeq(DictValues(result)) = 12 * stored[1].v

\* C22: the revenue stored for a fetched version is the sum of the values of the
\* monthly revenue series stored for it, and the aggregated revenue of a processed
\* group is the sum of the values of the merged monthly series emitted for the group.
C22_RevenueIsSumOfMonths ==
    /\ \A id \in StoredIds :
          StoredRecord(id).revenue = SumSeq(DictValues(RawSeries(id)))
    /\ \A i \in 1..Len(processed.protocols) :
          processed.protocols[i].metrics.revenue
             = SumSeq(DictValues(processed.protocols[i].monthly_revenue.d))

\* C22 witness: a processed group has two fetched versions; the first answered three
\* points in two months (2 and 2 in January, -1 in February: 3 in all), the second
\* 7 and 1; the group's revenue and the sum of its merged months are both 11.
C22_Witness ==
    \E i \in 1..Len(processed.protocols) :
       LET ids == FetchedIds(GroupOf(processed.protocols[i]))
       IN  /\ Len(ids) = 2
           /\ Len(DailyPoints(ids[1])) = 3
           /\ RawSeries(ids[1]) =
                 << [k |-> MonthKey(2024, 1), v |-> 4], [k |-> MonthKey(2024, 2), v |-> 0 - 1] >>
           /\ StoredRecord(ids[1]).revenue = 3
           /\ StoredRecord(ids[2]).revenue = 8
           /\ processed.protocols[i].metrics.revenue = 11
           /\ Len(processed.protocols[i].monthly_revenue.d) = 3

----------------------------------------------------------------------------
(* The process stage alone: process_protocol_data run on a snapshot file whose first
   group has up to MaxEntries per-version entries, each a monthly mapping or a bare
   number, in any order *)

\* the entries a version may have in "monthly_revenue" of the snapshot
MergeShapes ==
    { JDict(<< [k |-> MonthKey(2024, 1), v |-> 5] >>),
      JDict(<< [k |-> MonthKey(2024, 2), v |-> 7], [k |-> MonthKey(2024, 1), v |-> 1] >>),
      JDict(<< >>),
      JInt(7),
      JNum(5, 2) }

\* the record of a version as the fetch stage writes it
SnapshotVersion(name) ==
    [name |-> name, symbol |-> "", chains |-> <<>>, tvl |-> JInt(0), fees |-> 0, revenue |-> 0,
     mcap |-> 0]

\* a group of the snapshot whose versions ids have the given monthly entries
SnapshotGroup(ids, entries) ==
    [versions        |-> [i \in 1..Len(entries) |-> [k |-> ids[i], v |-> SnapshotVersion(ids[i])]],
     aggregated      |-> [tvl |-> JInt(0), fees |-> 0, revenue |-> 0],
     monthly_revenue |-> [i \in 1..Len(entries) |-> [k |-> ids[i], v |-> entries[i]]]]

SnapshotFiles ==
    {[protocols |->
         << [k |-> PROTOCOLS[2].k, v |-> SnapshotGroup(PROTOCOLS[2].v, entries)],
            [k |-> PROTOCOLS[3].k,
             v |-> SnapshotGroup(PROTOCOLS[3].v, << JDict(<< [k |-> MonthKey(2024, 1), v |-> 5] >>) >>)] >>,
      chains |-> << [k |-> CHAINS[1], v |-> [monthly_revenue |-> FlatYear(2024, 1)]] >>] :
        entries \in UNION {[1..n -> MergeShapes] : n \in 1..Min(MaxEntries, Len(PROTOCOLS[2].v))}}

InitMerge ==
    /\ pc = "process_protocols"
    /\ gi = 1 /\ vi = 1 /\ ci = 1 /\ year = 2025
    /\ responses = <<>>
    /\ all_data \in SnapshotFiles
    /\ processed = NewProcessedData
    /\ raised = "none"
    /\ previous = NoRun
    /\ charts = NoCharts

NextMerge ==
    \/ ProcessProtocol
    \/ ProcessChain

SpecMerge == InitMerge /\ [][NextMerge]_vars

----------------------------------------------------------------------------
(* Claims on the process stage alone *)

\* the group of the snapshot has been handled by process_protocol_data
Handled(g) ==
    \/ pc \in {"process_chains", "done"}
    \/ pc = "process_protocols" /\ g < gi
    \/ pc = "aborted" /\ g <= gi

\* C23: for a group whose per-version entries are each a monthly mapping or a bare
\* number, in any order, aggregate_monthly_revenue returns a mapping from month key
\* to number and raises nothing, so the process stage handles the group without an
\* exception and emits a mapping for it.
C23_MergeReturnsMapping ==
    /\ raised = "none"
    /\ \A g \in 1..Len(all_data.protocols) :
          Handled(g) =>
             DataProcessor_aggregate_monthly_revenue(all_data.protocols[g].v.monthly_revenue).t = "dict"
    /\ \A i \in 1..Len(processed.protocols) : processed.protocols[i].monthly_revenue.t = "dict"

----------------------------------------------------------------------------
(* The pipeline followed by the visualizer's QoQ chart: the QoQ path, then
   create_qoq_growth_chart on the processed file *)

\* x * 100 on the result of a division
Times100(x) == IF x.exc # "none" THEN x ELSE TrueDiv(x.n * 100, x.d)

\* create_qoq_growth_chart, lines 160-170, on the protocols of the processed file (a
\* str-keyed mapping of numbers is read back from the file as it was written): qoq is
\* what calculate_qoq_growth returned at line 163; a rate of 0.0 is replaced by the
\* monthly growth and the name is starred
CreateQoqGrowthChart ==
    /\ pc = "done"
    /\ charts' = [charts EXCEPT !.qoq_growth =
          [i \in 1..Len(processed.protocols) |->
              LET monthly_revenue == processed.protocols[i].monthly_revenue.d
                  qoq     == DeFiVisualizer_calculate_qoq_growth(monthly_revenue)
                  starred == Times100(qoq) = Float(0)
              IN  [qoq         |-> qoq,
                   starred     |-> starred,
                   growth_rate |-> IF starred
                                   THEN Times100(calculate_monthly_growth(monthly_revenue))
                                   ELSE Times100(qoq)]]]
    /\ pc' = "qoq_drawn"
    /\ UNCHANGED <<gi, vi, ci, year, responses, all_data, processed, raised, previous>>

NextQoqChart ==
    \/ \E daily_data \in QoqCharts(gi, vi) : FetchVersion(BundleOf(daily_data))
    \/ \E i \in 1..Len(QoqBundles(gi, vi)) : FetchVersion(QoqBundles(gi, vi)[i])
    \/ FetchChain(None)
    \/ ProcessProtocol
    \/ ProcessChain
    \/ CreateQoqGrowthChart

SpecQoqChart == Init /\ [][NextQoqChart]_vars

\* C24: for every group, with M the per-version monthly mapping of the snapshot, the
\* QoQ growth the processing stage stored is DataProcessor.calculate_qoq_growth(M),
\* the QoQ growth the visualizer computes from the processed file is
\* DeFiVisualizer.calculate_qoq_growth(DataProcessor.aggregate_monthly_revenue(M)),
\* and the two are equal.
C24_QoqStoredEqualsRecomputed ==
    pc = "qoq_drawn" =>
       \A i \in 1..Len(processed.protocols) :
          LET M == RawGroup(GroupOf(processed.protocols[i])).monthly_revenue
          IN  /\ Growth(i) = DataProcessor_calculate_qoq_growth(M)
              /\ charts.qoq_growth[i].qoq
                    = DeFiVisualizer_calculate_qoq_growth(DataProcessor_aggregate_monthly_revenue(M).d)
              /\ charts.qoq_growth[i].qoq = Growth(i)

\* C24 witness: the chart is drawn; a group merged from two versions has 12 months or
\* more and a growth other than 0.0, stored and recomputed alike.
C24_Witness ==
    /\ pc = "qoq_drawn"
    /\ \E i \in 1..Len(processed.protocols) :
          /\ Len(RawGroup(GroupOf(processed.protocols[i])).monthly_revenue) = 2
          /\ Len(Merged(i)) >= 12
          /\ Growth(i).exc = "none" /\ Growth(i).n # 0
          /\ charts.qoq_growth[i].qoq = Growth(i)
          /\ ~charts.qoq_growth[i].starred

----------------------------------------------------------------------------
(* Claims on the coverage of the FDV table *)

\* the display name is, letter case ignored, a name of the FDV table
InFdvTable(name) == \E k \in 1..Len(fdv_data) : Upper(fdv_data[k].k) = Upper(name)

\* C25: once the ratios are computed, the returned list has one entry for every
\* protocol of the file whose display name is, letter case ignored, a name of the FDV
\* table, and no entry for any other protocol: no listed protocol is skipped.
C25_EveryListedProtocolHasEntry ==
    pc = "drawn" =>
       /\ \A i \in 1..Len(processed.protocols) :
             LET name == processed.protocols[i].displayName
             IN  Cardinality({j \in 1..Len(charts.fdv_ratio) : charts.fdv_ratio[j].name = name})
                    = IF InFdvTable(name)
                      THEN Cardinality({j \in 1..Len(processed.protocols) :
                                           processed.protocols[j].displayName = name})
                      ELSE 0
       /\ \A j \in 1..Len(charts.fdv_ratio) :
             \E i \in 1..Len(processed.protocols) :
                processed.protocols[i].displayName = charts.fdv_ratio[j].name

====
